---- MODULE Spec2Model ----
(***************************************************************************)
(* Asynchronous image-generation job pipeline.                             *)
(*                                                                         *)
(*   submission : app/api/v1/endpoints/generate.py  create_generation      *)
(*   account    : app/repositories/user_repository.py                      *)
(*   records    : app/repositories/base_repository.py  update_by_id        *)
(*   queue      : app/services/queue_service.py                            *)
(*   worker     : app/services/worker_service.py  BackgroundWorker         *)
(*                                                                         *)
(* One user account, MaxRequests submissions (request r creates the        *)
(* generation record r), NumWorkers worker processes.  Every await in the  *)
(* code that reads or writes the account, the record store or the broker   *)
(* is one step, so the steps of different requests and workers interleave  *)
(* exactly where the code yields.  The broker is at-least-once: a lease    *)
(* (peek-lock) can expire while its holder is still processing, and a      *)
(* message whose delivery count is used up is dead-lettered by the broker. *)
(***************************************************************************)
EXTENDS Integers, Sequences, FiniteSets, TLC

\* ------------------------------------------------------------------ bounds
MaxRequests == 2
NumWorkers == 2
\* deliveries the broker grants one message before it dead-letters it
MaxDeliveryCount == 4
\* largest worker_max_concurrent_jobs setting explored by AttemptSpec
MaxConcurrentJobs == 2
\* most outputs one synthesis returns in AttemptSpec
MaxOutputs == 2
\* concurrent callers of CreditService in CreditRaceSpec
NumCallers == 2
\* CreditService calls made in one behaviour
MaxLedgerOps == 3
\* days of the billing period an upgrade is prorated over
MaxDays == 2
\* message ids the queue sender may draw in one behaviour
MaxUuid == 4
\* messages that wait on the queue of the receive loop at one time
MaxBacklog == 2
\* deliveries of billing events the webhook endpoint serves in one behaviour
MaxDeliveries == 3
\* distinct billing event ids among them
MaxEvents == 2
\* longest max_wait_time, in seconds, wait_for_completion is called with
MaxWaitTime == 4
\* longest poll_interval, in seconds, it is called with
MaxPollInterval == 2
\* longest initial_wait, in seconds, it is called with
MaxInitialWait == 1
\* most seconds one status check takes
MaxLatency == 1

\* ------------------------------------------------------- program constants
\* User.credits_remaining default
InitialCredits == 10
\* _calculate_credits_required: flux-schnell
CostSchnell == 5
\* _calculate_credits_required: flux-dev
CostDev == 10
\* BackgroundWorker.max_retries
max_retries == 3
\* GenerationJobMessage.__init__ attempt default
DefaultAttempt == 1
\* BackgroundWorker.start max_concurrent_jobs default
DefaultMaxConcurrentJobs == 5

\* SubscriptionTier and TierConfig.TIERS[...]["credits_per_month"]
FREE == "free"
BASIC == "basic"
PREMIUM == "premium"
FreeCredits == 10
BasicCredits == 200
Unlimited == -1
\* send_generation_request: stop_after_attempt
StopAfterAttempt == 3
\* wait_for_completion: the longest back-off between two polls, in seconds
BackoffCap == 10
\* wait_for_completion: the back-off doubles attempt % BackoffCycle times
BackoffCycle == 5

Requests == 1..MaxRequests
Callers == 1..NumCallers
Workers == 1..NumWorkers
\* the one submission whose job PipelineSpec, FairSpec and AttemptSpec follow
Jobs == {1}
Costs == {CostSchnell, CostDev}

\* GenerationStatus
PENDING == "pending"
PROCESSING == "processing"
COMPLETED == "completed"
FAILED == "failed"
CANCELLED == "cancelled"
NoRecord == "none"

\* what steps 2-4 of the per-job pipeline can raise: a provider, timeout or
\* persistence error, or the provider's rate limit
Errors == {"error", "rate_limit"}

VARIABLES
    balance,     \* users.credits_remaining of the account
    reqPc,       \* request -> position in create_generation
    reqCost,     \* request -> credits_required
    rec,         \* generation id -> Generation Record
    msgs,        \* sequence of broker messages; message_id = index
    wPc,         \* worker -> position in receive_messages / process_generation_job
    wMsg,        \* worker -> message_id it received (0 when none)
    wSuccess,    \* worker -> value returned by the processor callback
    wAttempt,    \* worker -> output_urls, images, blob_urls of its attempt
    semaphore,   \* worker -> value of the asyncio.Semaphore of its process
    max_concurrent_jobs,  \* the worker_max_concurrent_jobs setting
    deducted,    \* generation id -> credits taken from the balance for it
    refunded,    \* generation id -> credits given back to the balance for it
    \* CreditService (app/services/credit_service.py)
    sub,         \* the subscription document of the account
    usage_log,   \* the usage-log collection, oldest entry first
    opPc,        \* caller -> position in the CreditService call it makes
    opArg,       \* caller -> credits argument of that call
    opSub,       \* caller -> subscription the call read
    opRet,       \* caller -> what its last call returned or raised
    ops,         \* CreditService calls begun so far
    lastDeduct,  \* the last deduction, while nothing else wrote since
    \* queue sender and dead-letter administration (queue_service.py)
    uuid,        \* uuid4 values drawn so far
    mainQ,       \* messages on the main queue
    deadQ,       \* messages on the dead-letter sub-queue
    qPc,         \* position of the caller of the queue service
    qCall,       \* its call: arguments, tries made, message ids built, result
    \* ReplicateService.wait_for_completion (replicate_service.py)
    waitPc,      \* position of the call of wait_for_completion
    waitCall,    \* its arguments and locals, the clock, the last poll
    \* _worker_loop and receive_messages of one worker process
    running,     \* BackgroundWorker.running
    loopPc,      \* position of the worker loop
    inbox,       \* body -> messages with that body waiting on the queue
    lease,       \* the message the loop received last and what became of it
    \* the billing webhook endpoint (api/v1/endpoints/subscriptions.py)
    _processed_events,  \* the module-level set of processed event ids
    hookPc,      \* delivery -> position in stripe_webhook
    hookEvent,   \* delivery -> event.id of the verified event (0 when none)
    handled      \* event id -> calls of handle_webhook_event made for it

reqVars == <<reqPc, reqCost>>
workerVars == <<wPc, wMsg, wSuccess, wAttempt, semaphore, max_concurrent_jobs>>
ledgerVars == <<deducted, refunded>>

\* the submission endpoint, the record store, the broker and the workers
pipelineVars == <<balance, reqVars, rec, msgs, workerVars, ledgerVars>>
creditVars == <<sub, usage_log, opPc, opArg, opSub, opRet, ops, lastDeduct>>
queueVars == <<uuid, mainQ, deadQ, qPc, qCall>>
waitVars == <<waitPc, waitCall>>
loopVars == <<running, loopPc, inbox, lease>>
billingVars == <<_processed_events, hookPc, hookEvent, handled>>

vars == <<pipelineVars, creditVars, queueVars, waitVars, loopVars, billingVars>>

\* what the pipeline leaves alone
notPipeline == <<creditVars, queueVars, waitVars, loopVars, billingVars>>

\* started_at is 0 while the field is not set; a set started_at is the
\* time of the write that stamped it.
EmptyRecord ==
    [status |-> NoRecord, credits_used |-> 0, has_result |-> FALSE,
     started_at |-> 0]

\* The locals of an attempt: how many output_urls the provider returned, how
\* many images were downloaded, how many blob_urls were stored, and what
\* became of the completion notification.
NoAttempt == [outputs |-> 0, images |-> 0, blob_urls |-> 0, hook |-> "none"]

\* The pipeline after start-up, its workers started with a setting in S.
InitPipeline(S) ==
    /\ max_concurrent_jobs \in S
    /\ semaphore = [w \in Workers |-> max_concurrent_jobs]
    /\ wAttempt = [w \in Workers |-> NoAttempt]
    /\ balance = InitialCredits
    /\ reqPc = [r \in Requests |-> "new"]
    /\ reqCost = [r \in Requests |-> 0]
    /\ rec = [g \in Requests |-> EmptyRecord]
    /\ msgs = <<>>
    /\ wPc = [w \in Workers |-> "idle"]
    /\ wMsg = [w \in Workers |-> 0]
    /\ wSuccess = [w \in Workers |-> FALSE]
    /\ deducted = [g \in Requests |-> 0]
    /\ refunded = [g \in Requests |-> 0]

\* -------------------------------------------------- CreditService, state

Tiers == {FREE, BASIC, PREMIUM}

\* TierConfig.get_config(tier)["credits_per_month"]
TierCredits(tier) ==
    CASE tier = FREE -> FreeCredits
      [] tier = BASIC -> BasicCredits
      [] tier = PREMIUM -> Unlimited

\* tier_config["credits_per_month"] == -1
IsUnlimited(tier) == TierCredits(tier) = Unlimited

\* The subscription document as it is created for a tier.
NewSubscription(tier) ==
    [tier |-> tier, credits_per_month |-> TierCredits(tier),
     credits_remaining |-> TierCredits(tier), credits_used_this_period |-> 0]

NoArg == [credits |-> 0, tier |-> "none"]
NoReturn == [call |-> "none", outcome |-> "none", credits_remaining |-> 0]
NoDeduct == [credits |-> 0, before |-> 0]

\* An account whose subscription is of a tier in T, nobody calling.
InitCreditOf(T) ==
    /\ \E tier \in T : sub = NewSubscription(tier)
    /\ usage_log = <<>>
    /\ opPc = [c \in Callers |-> "idle"]
    /\ opArg = [c \in Callers |-> NoArg]
    /\ opSub = [c \in Callers |-> NewSubscription(FREE)]
    /\ opRet = [c \in Callers |-> NoReturn]
    /\ ops = 0
    /\ lastDeduct = NoDeduct

InitCredit == InitCreditOf({FREE})

\* ------------------------------------------------------ queue sender, state

\* A call of the queue service: who makes it, the generation it is for, the
\* attempt of the job_message the caller holds, the tries made and the
\* message ids built so far, the dead-lettered message being resubmitted
\* (its message_id and attempt, 0 when none), and the result.
NoCall ==
    [origin |-> "none", generation_id |-> 0, attempt |-> 0, tries |-> 0,
     ids |-> {}, dead |-> 0, dead_attempt |-> 0, result |-> "none"]

InitQueue ==
    /\ uuid = 0
    /\ mainQ = {}
    /\ deadQ = {}
    /\ qPc = "idle"
    /\ qCall = NoCall

\* ------------------------------------------- wait_for_completion, state

\* The locals of a call of wait_for_completion: its arguments, attempt and
\* elapsed, the seconds gone since start_time was taken (clock), and the
\* status and the rate-limit mark of the result of the last poll.
NoWait ==
    [max_wait_time |-> 0, poll_interval |-> 1, attempt |-> 0, elapsed |-> 0,
     clock |-> 0, status |-> "none", rate_limited |-> FALSE]

InitWait ==
    /\ waitPc = "idle"
    /\ waitCall = NoWait

\* ------------------------------------------------- the worker loop, state

\* What str(message) of a received message can be: the JSON of a job
\* message, text that is no JSON, JSON without a required field.
Bodies == {"job", "not_json", "missing_field"}

\* The message the receive loop holds: its body, whether its lock is still
\* valid, what the callback returned for it, the settlement operations the
\* broker accepted for it, and the reason it was dead-lettered with.
NoLease ==
    [body |-> "none", locked |-> FALSE, success |-> "none", settled |-> <<>>,
     reason |-> "none"]

\* BackgroundWorker.__init__: running is False, nothing is received yet.
InitLoop ==
    /\ running = FALSE
    /\ loopPc = "new"
    /\ inbox = [b \in Bodies |-> 0]
    /\ lease = NoLease

\* ---------------------------------------------- billing webhook, state

Deliveries == 1..MaxDeliveries
Events == 1..MaxEvents

\* _processed_events = set(): nothing processed, no request in progress.
InitBilling ==
    /\ _processed_events = {}
    /\ hookPc = [d \in Deliveries |-> "idle"]
    /\ hookEvent = [d \in Deliveries |-> 0]
    /\ handled = [e \in Events |-> 0]

\* The services beside the pipeline, as they are constructed.
InitServices ==
    /\ InitQueue
    /\ InitWait
    /\ InitLoop
    /\ InitBilling

Init ==
    /\ InitPipeline({DefaultMaxConcurrentJobs})
    /\ InitCredit
    /\ InitServices

\* ------------------------------------------------------------- submission

\* A request is over: its local credits_required is gone.
ReqEnd(r, outcome) ==
    /\ reqPc' = [reqPc EXCEPT ![r] = outcome]
    /\ reqCost' = [reqCost EXCEPT ![r] = 0]

\* An endpoint that puts the message on the queue right after the
\* deduction, before the record is created.
StepAfter_EnqueueFirst(step) ==
    CASE step = "new" -> "deduct_find"
      [] step = "deduct_find" -> "deduct_inc"
      [] step = "deduct_inc" -> "send"
      [] step = "create" -> "send"

\* The order of the awaits of create_generation: the check of the request,
\* user_repo.deduct_credits (find, then $inc), generation_repo.create,
\* queue_service.send_generation_request.
StepAfter(step) ==
    CASE step = "new" -> "deduct_find"
      [] step = "deduct_find" -> "deduct_inc"
      [] step = "deduct_inc" -> "create"
      [] step = "create" -> "send"

\* The comparison of the endpoint with its operands exchanged.
InsufficientAtEndpoint_Swapped(available, required) == required < available

\* current_user.credits_remaining < credits_required
InsufficientAtEndpoint(available, required) == available < required

\* The request arrives: get_current_verified_user loads the user document,
\* _calculate_credits_required prices the request, and the endpoint checks
\* the user it was handed: 402 when the credits do not suffice.
ReqCheck(r, c) ==
    /\ reqPc[r] = "new"
    /\ IF InsufficientAtEndpoint(balance, c)
       THEN ReqEnd(r, "rejected_402")
       ELSE /\ reqPc' = [reqPc EXCEPT ![r] = StepAfter("new")]
            /\ reqCost' = [reqCost EXCEPT ![r] = c]
    /\ UNCHANGED <<notPipeline, balance, rec, msgs, workerVars, ledgerVars>>

\* user.credits_remaining < credits inside UserRepository.deduct_credits
InsufficientAtDeduct(available, required) == available < required

\* UserRepository.deduct_credits, first await: find_by_id and the check.
\* The ValueError is caught by create_generation's except Exception: 500.
DeductFind(r) ==
    /\ reqPc[r] = "deduct_find"
    /\ IF InsufficientAtDeduct(balance, reqCost[r])
       THEN ReqEnd(r, "error_500")
       ELSE /\ reqPc' = [reqPc EXCEPT ![r] = StepAfter("deduct_find")]
            /\ UNCHANGED reqCost
    /\ UNCHANGED <<notPipeline, balance, rec, msgs, workerVars, ledgerVars>>

\* UserRepository.deduct_credits, second await: $inc credits_remaining by
\* -credits, filtered on the id only.
DeductInc(r) ==
    /\ reqPc[r] = "deduct_inc"
    /\ balance' = balance - reqCost[r]
    /\ deducted' = [deducted EXCEPT ![r] = @ + reqCost[r]]
    /\ reqPc' = [reqPc EXCEPT ![r] = StepAfter("deduct_inc")]
    /\ UNCHANGED <<notPipeline, reqCost, rec, msgs, workerVars, refunded>>

\* generation_repo.create with status pending and credits_used.
CreateRecord(r) ==
    /\ reqPc[r] = "create"
    /\ rec' = [rec EXCEPT ![r] = [EmptyRecord EXCEPT !.status = PENDING,
                                                     !.credits_used = reqCost[r]]]
    /\ reqPc' = [reqPc EXCEPT ![r] = StepAfter("create")]
    /\ UNCHANGED <<notPipeline, balance, reqCost, msgs, workerVars, ledgerVars>>

\* GenerationJobMessage(...) as send_generation_request builds it.
NewMessage(g, callback_url) ==
    [gid |-> g, attempt |-> DefaultAttempt, callback_url |-> callback_url,
     state |-> "active", delivery_count |-> 0, lock |-> 0, all_failed |-> TRUE]

\* send_generation_request puts the message on the queue, with the
\* callback_url of the request, and returns True; the endpoint answers 202
\* with the generation_id.
SendOk(r, callback_url) ==
    /\ reqPc[r] = "send"
    /\ msgs' = Append(msgs, NewMessage(r, callback_url))
    /\ ReqEnd(r, "accepted")
    /\ UNCHANGED <<notPipeline, balance, rec, workerVars, ledgerVars>>

\* send_generation_request: an exception that is not a ServiceBusError is
\* logged and the call returns False.
SendReturnsFalse(r) ==
    /\ reqPc[r] = "send"
    /\ reqPc' = [reqPc EXCEPT ![r] = "refund"]
    /\ UNCHANGED <<notPipeline, balance, reqCost, rec, msgs, workerVars, ledgerVars>>

\* send_generation_request: ServiceBusError is re-raised on every attempt
\* tenacity makes; the error leaves the call and create_generation's
\* except Exception turns it into a 500.
SendRaises(r) ==
    /\ reqPc[r] = "send"
    /\ ReqEnd(r, "error_500")
    /\ UNCHANGED <<notPipeline, balance, rec, msgs, workerVars, ledgerVars>>

\* if not success: user_repo.add_credits(...), then HTTPException 500.
RefundOnSendFailure(r) ==
    /\ reqPc[r] = "refund"
    /\ balance' = balance + reqCost[r]
    /\ refunded' = [refunded EXCEPT ![r] = @ + reqCost[r]]
    /\ ReqEnd(r, "error_500")
    /\ UNCHANGED <<notPipeline, rec, msgs, workerVars, deducted>>

\* The requests of R; CB tells whether they may carry a callback_url.
Submission(R, CB) ==
    \E r \in R :
        \/ \E c \in Costs : ReqCheck(r, c)
        \/ DeductFind(r)
        \/ DeductInc(r)
        \/ CreateRecord(r)
        \/ \E callback_url \in CB : SendOk(r, callback_url)
        \/ SendReturnsFalse(r)
        \/ SendRaises(r)
        \/ RefundOnSendFailure(r)

\* ------------------------------------------------------------------ broker

\* What the broker does with a message whose lease ends without complete():
\* it is offered again, or dead-lettered once its deliveries are used up
\* ("Service Bus will handle DLQ").
Release(msg) ==
    [msg EXCEPT !.lock = 0,
                !.state = IF msg.delivery_count >= MaxDeliveryCount
                          THEN "dead" ELSE "active"]

\* The peek-lock of a leased message runs out while its holder is still at
\* work ("Message lock lost ... Processing took too long").
LockExpire(m) ==
    /\ msgs[m].state = "leased"
    /\ msgs' = [msgs EXCEPT ![m] = Release(@)]
    /\ UNCHANGED <<notPipeline, balance, reqVars, rec, workerVars, ledgerVars>>

\* Worker w still owns the lease of the message it received.
HoldsLock(w) ==
    /\ wMsg[w] # 0
    /\ msgs[wMsg[w]].state = "leased"
    /\ msgs[wMsg[w]].lock = w

\* ------------------------------------------------------------ record store

\* BaseRepository.update_by_id: find_one_and_update filtered on the id only;
\* a missing document gives None and changes nothing.
update_by_id(record, status, has_result) ==
    IF record.status = NoRecord
    THEN record
    ELSE [record EXCEPT !.status = status, !.has_result = has_result]

\* ------------------------------------------------------------------ worker

\* receive_messages: the receiver hands the next message to the loop, which
\* parses it and awaits the processor callback.
Receive(w, m) ==
    /\ wPc[w] = "idle"
    /\ msgs[m].state = "active"
    /\ msgs' = [msgs EXCEPT ![m].state = "leased", ![m].lock = w,
                            ![m].delivery_count = @ + 1]
    /\ wPc' = [wPc EXCEPT ![w] = "received"]
    /\ wMsg' = [wMsg EXCEPT ![w] = m]
    /\ UNCHANGED <<notPipeline, balance, reqVars, rec, wSuccess, wAttempt,
                   semaphore, max_concurrent_jobs, ledgerVars>>

\* asyncio.Semaphore: entering "async with semaphore" takes a permit.
SemAcquire(permits) == permits - 1

\* A semaphore whose permit is not given back.
SemRelease_Lost(permits) == permits

\* asyncio.Semaphore: leaving "async with semaphore" gives the permit back.
SemRelease(permits) == permits + 1

\* datetime.utcnow() at step 1 of the attempt made for a delivery of a
\* message: the attempts of different deliveries are made at different
\* times, so the time of an attempt is numbered by its delivery.
utcnow(msg) == msg.delivery_count

\* _update_status(generation_id, PROCESSING, {"started_at": now}): the
\* additional data is merged into the update, whatever the record holds.
_update_status(record, status, now) ==
    IF record.status = NoRecord
    THEN record
    ELSE [update_by_id(record, status, record.has_result) EXCEPT !.started_at = now]

\* _process_with_semaphore enters the semaphore (it waits while no permit is
\* left), then process_generation_job step 1:
\* _update_status(PROCESSING, started_at).
StartProcessing(w) ==
    /\ wPc[w] = "received"
    /\ semaphore[w] > 0
    /\ semaphore' = [semaphore EXCEPT ![w] = SemAcquire(@)]
    /\ LET g == msgs[wMsg[w]].gid
       IN rec' = [rec EXCEPT ![g] =
                    _update_status(@, PROCESSING, utcnow(msgs[wMsg[w]]))]
    /\ wPc' = [wPc EXCEPT ![w] = "pipeline"]
    /\ UNCHANGED <<notPipeline, balance, reqVars, msgs, wMsg, wSuccess, wAttempt,
                   max_concurrent_jobs, ledgerVars>>

\* process_generation_job returns: the callback leaves the semaphore and
\* hands its result to receive_messages.
Return(w, success, attempt) ==
    /\ wSuccess' = [wSuccess EXCEPT ![w] = success]
    /\ wAttempt' = [wAttempt EXCEPT ![w] = attempt]
    /\ semaphore' = [semaphore EXCEPT ![w] = SemRelease(@)]
    /\ wPc' = [wPc EXCEPT ![w] = "settle"]

\* process_generation_job steps 5-6 and the return: _update_completion
\* writes the record and the callback returns True.  (all_failed is history
\* kept for the properties: every attempt made for the message so far
\* failed with an error other than a rate limit.)
AttemptSucceeds(w, attempt) ==
    /\ wPc[w] = "pipeline"
    /\ LET g == msgs[wMsg[w]].gid
       IN rec' = [rec EXCEPT ![g] = update_by_id(@, COMPLETED, TRUE)]
    /\ msgs' = [msgs EXCEPT ![wMsg[w]].all_failed = FALSE]
    /\ Return(w, TRUE, attempt)
    /\ UNCHANGED <<notPipeline, balance, reqVars, wMsg, max_concurrent_jobs,
                   ledgerVars>>

\* A failure handler that leaves the status of the record as it finds it.
FailureStatus_Unchanged(e, current) == current

\* The status _handle_job_failure writes for an attempt that failed with
\* error e: FAILED whatever the error.
FailureStatus(e, current) == FAILED

\* A failure handler that asks for the message to be completed.
FailureResult_Complete(attempt) == TRUE

\* The value _handle_job_failure returns: both branches of
\* "attempt < self.max_retries" return False.
FailureResult(attempt) == IF attempt < max_retries THEN FALSE ELSE FALSE

\* The except branch of process_generation_job for error e raised with the
\* locals in attempt: _handle_job_failure writes failed, then decides on the
\* message.  The balance is not touched.
HandleFailure(w, e, attempt) ==
    /\ wPc[w] = "pipeline"
    /\ LET m == wMsg[w]
           g == msgs[m].gid
       IN /\ rec' = [rec EXCEPT ![g] =
                        update_by_id(@, FailureStatus(e, @.status), @.has_result)]
          /\ msgs' = [msgs EXCEPT ![m].all_failed = @ /\ e # "rate_limit"]
          /\ Return(w, FailureResult(msgs[m].attempt), attempt)
    /\ UNCHANGED <<notPipeline, balance, reqVars, wMsg, max_concurrent_jobs,
                   ledgerVars>>

\* process_generation_job when step 2 raises error e (the provider call
\* failed, timed out, was rate limited, or the prediction did not succeed).
AttemptFails(w, e) == HandleFailure(w, e, NoAttempt)

\* download_all_outputs: the downloads whose result is not an exception.
download_all_outputs(n, downloaded) == {i \in 1..n : downloaded[i]}

\* An upload loop that gives up at the first image that cannot be stored.
_upload_images_FailFast(images, uploaded) ==
    IF \A i \in images : uploaded[i] THEN images ELSE {}

\* _upload_images: the images whose upload and URL generation raised
\* nothing; an image that fails is logged and skipped.
_upload_images(images, uploaded) == {i \in images : uploaded[i]}

\* A notification whose failed POST leaves _send_webhook_notification.
WebhookRaises_Propagates(hook) == hook = "post_failed"

\* _send_webhook_notification: every exception of the POST is caught and
\* logged, none leaves the call.
WebhookRaises(hook) == FALSE

\* What can become of the notification of a message: nothing without a
\* callback_url, otherwise the POST is accepted or fails.
Hooks(callback_url) == IF callback_url THEN {"sent", "post_failed"} ELSE {"none"}

\* process_generation_job when the prediction succeeded with n output_urls:
\* steps 3-6.  downloaded[i] and uploaded[i] tell whether output i can be
\* fetched and stored, persisted whether the update of _update_completion
\* goes through (its exception is raised again).
SynthesisSucceeded(w, n, downloaded, uploaded, persisted, hook) ==
    /\ wPc[w] = "pipeline"
    /\ hook \in Hooks(msgs[wMsg[w]].callback_url)
    /\ LET images == download_all_outputs(n, downloaded)
           blob_urls == _upload_images(images, uploaded)
           reached(h) == [outputs |-> n, images |-> Cardinality(images),
                          blob_urls |-> Cardinality(blob_urls), hook |-> h]
       IN IF n = 0 \/ images = {} \/ blob_urls = {} \/ ~persisted
          THEN HandleFailure(w, "error", reached("none"))
          ELSE IF WebhookRaises(hook)
               THEN HandleFailure(w, "error", reached(hook))
               ELSE AttemptSucceeds(w, reached(hook))

\* The settlement receive_messages performs for a callback result.
SettleMessage(msg, success) ==
    IF success THEN [msg EXCEPT !.state = "completed", !.lock = 0]
    ELSE Release(msg)

\* receive_messages after the callback: complete_message on True,
\* abandon_message on False; MessageLockLostError is logged and dropped.
Settle(w) ==
    /\ wPc[w] = "settle"
    /\ msgs' = IF HoldsLock(w)
               THEN [msgs EXCEPT ![wMsg[w]] = SettleMessage(@, wSuccess[w])]
               ELSE msgs
    /\ wPc' = [wPc EXCEPT ![w] = "idle"]
    /\ wMsg' = [wMsg EXCEPT ![w] = 0]
    /\ wSuccess' = [wSuccess EXCEPT ![w] = FALSE]
    /\ wAttempt' = [wAttempt EXCEPT ![w] = NoAttempt]
    /\ UNCHANGED <<notPipeline, balance, reqVars, rec, semaphore,
                   max_concurrent_jobs, ledgerVars>>

\* One worker process of W; the provider returns a number of outputs in N,
\* and F tells whether an output can be fetched and stored.
Worker(W, N, F) ==
    \E w \in W :
        \/ \E m \in 1..Len(msgs) : Receive(w, m)
        \/ StartProcessing(w)
        \/ \E n \in N : \E downloaded, uploaded \in [1..n -> F] :
              \E persisted \in F : \E hook \in {"none", "sent", "post_failed"} :
                 SynthesisSucceeded(w, n, downloaded, uploaded, persisted, hook)
        \/ \E e \in Errors : AttemptFails(w, e)
        \/ Settle(w)

Broker == \E m \in 1..Len(msgs) : LockExpire(m)

\* Requests without callback_url, predictions with one output that can be
\* fetched and stored (a failure of the pipeline is then one of Errors).
NoCallback == {FALSE}
OneOutput == {1}
Stored == {TRUE}

\* The whole system: MaxRequests submissions, NumWorkers workers, the broker.
Next ==
    \/ Submission(Requests, NoCallback)
    \/ Worker(Workers, OneOutput, Stored)
    \/ Broker

Spec == Init /\ [][Next]_vars

\* The submission path alone: MaxRequests concurrent calls of
\* create_generation against one account.
SubmitNext == Submission(Requests, NoCallback)

SubmitSpec == Init /\ [][SubmitNext]_vars

\* The pipeline of one submission under fair scheduling: a worker that
\* can take a step eventually takes one (the receive loop runs until
\* shutdown and every await of the per-job pipeline is bounded by a
\* timeout).  Nothing is assumed of the callers or of lock expiry.
WorkerStep(w) == Worker({w}, OneOutput, Stored)

PipelineNext ==
    \/ Submission(Jobs, NoCallback)
    \/ Worker(Workers, OneOutput, Stored)
    \/ Broker

FairSpec ==
    /\ Init
    /\ [][PipelineNext]_vars
    /\ \A w \in Workers : WF_vars(WorkerStep(w))

\* The same pipeline without any fairness, for its safety properties.
PipelineSpec == Init /\ [][PipelineNext]_vars

\* The administrative cancellation of a job: a record in pending is marked
\* cancelled.
Cancel(g) ==
    /\ rec[g].status = PENDING
    /\ rec' = [rec EXCEPT ![g].status = CANCELLED]
    /\ UNCHANGED <<notPipeline, balance, reqVars, msgs, workerVars, ledgerVars>>

\* The pipeline of one submission with the administration cancelling jobs.
CancelNext ==
    \/ PipelineNext
    \/ \E g \in Jobs : Cancel(g)

CancelSpec == Init /\ [][CancelNext]_vars

\* The attempts of one worker process in detail: the process is started
\* with a setting of 1..MaxConcurrentJobs permits, requests come with or
\* without callback_url, predictions return 0..MaxOutputs outputs, each of
\* which can or cannot be fetched and stored.
OneProcess == {1}

AttemptInit ==
    /\ InitPipeline(1..MaxConcurrentJobs)
    /\ InitCredit
    /\ InitServices

AttemptNext ==
    \/ Submission(Jobs, BOOLEAN)
    \/ Worker(OneProcess, 0..MaxOutputs, BOOLEAN)
    \/ Broker

AttemptSpec == AttemptInit /\ [][AttemptNext]_vars

\* One worker process with MaxRequests submissions: several messages can
\* wait on the queue while the process works on one.
PoolNext ==
    \/ Submission(Requests, NoCallback)
    \/ Worker(OneProcess, OneOutput, Stored)
    \/ Broker

PoolSpec == AttemptInit /\ [][PoolNext]_vars

\* ------------------------------------------------------------ CreditService

\* what CreditService leaves alone
notCredit == <<pipelineVars, queueVars, waitVars, loopVars, billingVars>>

\* A check that lets every deduction through that leaves credits to spare.
InsufficientCredits_Lenient(available, required) == available < 0

\* subscription.credits_remaining < credits
InsufficientCredits(available, required) == available < required

Min(a, b) == IF a < b THEN a ELSE b
Max(a, b) == IF a < b THEN b ELSE a

\* The call of caller c returns or raises: the caller is idle again.
OpReturn(c, call, outcome, credits_remaining) ==
    /\ opRet' = [opRet EXCEPT ![c] =
                    [call |-> call, outcome |-> outcome,
                     credits_remaining |-> credits_remaining]]
    /\ opPc' = [opPc EXCEPT ![c] = "idle"]
    /\ opArg' = [opArg EXCEPT ![c] = NoArg]
    /\ opSub' = [opSub EXCEPT ![c] = NewSubscription(FREE)]

\* The call of caller c goes on to its next await with what it read.
OpGoto(c, pc, arg) ==
    /\ opPc' = [opPc EXCEPT ![c] = pc]
    /\ opArg' = [opArg EXCEPT ![c] = arg]
    /\ opSub' = [opSub EXCEPT ![c] = sub]
    /\ UNCHANGED opRet

\* Caller c is free to make a call.
CanCall(c) == opPc[c] = "idle" /\ ops < MaxLedgerOps

\* usage_log_repo.create(credits_used, action)
LogEntry(action, credits_used) == [action |-> action, credits_used |-> credits_used]

\* deduct_credits(user_id, credits) up to its second await:
\* get_by_user_id, the tier test and the balance test.
DeductBegin(c, credits) ==
    /\ CanCall(c)
    /\ ops' = ops + 1
    /\ IF IsUnlimited(sub.tier)
       THEN OpGoto(c, "deduct_log_unlimited", [NoArg EXCEPT !.credits = credits])
       ELSE IF InsufficientCredits(sub.credits_remaining, credits)
            THEN OpReturn(c, "deduct", "InsufficientCredits", sub.credits_remaining)
            ELSE OpGoto(c, "deduct_update", [NoArg EXCEPT !.credits = credits])
    /\ UNCHANGED <<notCredit, sub, usage_log, lastDeduct>>

\* deduct_credits for an unlimited tier: the usage is logged with
\* credits_used 0 and the sentinel balance is returned.
DeductLogUnlimited(c) ==
    /\ opPc[c] = "deduct_log_unlimited"
    /\ usage_log' = Append(usage_log, LogEntry("generation", 0))
    /\ OpReturn(c, "deduct", "ok", Unlimited)
    /\ UNCHANGED <<notCredit, sub, ops, lastDeduct>>

\* deduct_credits: subscription_repo.update with the values computed from
\* the subscription that was read.
DeductUpdate(c) ==
    /\ opPc[c] = "deduct_update"
    /\ sub' = [sub EXCEPT
                 !.credits_remaining = opSub[c].credits_remaining - opArg[c].credits,
                 !.credits_used_this_period =
                     opSub[c].credits_used_this_period + opArg[c].credits]
    /\ lastDeduct' = [credits |-> opArg[c].credits, before |-> sub.credits_remaining]
    /\ opPc' = [opPc EXCEPT ![c] = "deduct_log"]
    /\ UNCHANGED <<notCredit, usage_log, opArg, opSub, opRet, ops>>

\* deduct_credits: the usage is logged and the new balance returned.
DeductLog(c) ==
    /\ opPc[c] = "deduct_log"
    /\ usage_log' = Append(usage_log, LogEntry("generation", opArg[c].credits))
    /\ OpReturn(c, "deduct", "ok", opSub[c].credits_remaining - opArg[c].credits)
    /\ UNCHANGED <<notCredit, sub, ops, lastDeduct>>

Deduct(c) ==
    \/ \E credits \in Costs : DeductBegin(c, credits)
    \/ DeductLogUnlimited(c)
    \/ DeductUpdate(c)
    \/ DeductLog(c)

\* The entries of the log with the given action and credits.
Logged(action, credits_used) ==
    Cardinality({i \in 1..Len(usage_log) :
                    usage_log[i] = LogEntry(action, credits_used)})

\* A generation charged credits (nothing, for an unlimited tier) is still
\* to be refunded: refund_credits is called for a generation that failed
\* or was cancelled.
Refundable(credits) ==
    \/ Logged("generation", credits) > Logged("refund", 0 - credits)
    \/ IsUnlimited(sub.tier) /\ Logged("generation", 0) > 0

\* refund_credits(user_id, credits, reason) up to its second await:
\* get_by_user_id and the tier test; an unlimited tier returns at once.
RefundBegin(c, credits) ==
    /\ CanCall(c)
    /\ Refundable(credits)
    /\ ops' = ops + 1
    /\ IF IsUnlimited(sub.tier)
       THEN OpReturn(c, "refund", "ok", Unlimited)
       ELSE OpGoto(c, "refund_update", [NoArg EXCEPT !.credits = credits])
    /\ UNCHANGED <<notCredit, sub, usage_log, lastDeduct>>

\* A refund that adds the credits without looking at the monthly limit.
RefundedBalance_Uncapped(remaining, credits, credits_per_month) ==
    remaining + credits

\* new_remaining = min(credits_remaining + credits, credits_per_month)
RefundedBalance(remaining, credits, credits_per_month) ==
    Min(remaining + credits, credits_per_month)

\* refund_credits: subscription_repo.update with the values computed from
\* the subscription that was read.
RefundUpdate(c) ==
    /\ opPc[c] = "refund_update"
    /\ sub' = [sub EXCEPT
                 !.credits_remaining =
                     RefundedBalance(opSub[c].credits_remaining, opArg[c].credits,
                                     opSub[c].credits_per_month),
                 !.credits_used_this_period =
                     Max(0, opSub[c].credits_used_this_period - opArg[c].credits)]
    /\ lastDeduct' = NoDeduct
    /\ opPc' = [opPc EXCEPT ![c] = "refund_log"]
    /\ UNCHANGED <<notCredit, usage_log, opArg, opSub, opRet, ops>>

\* refund_credits: the refund is logged with negative credits_used.
RefundLog(c) ==
    /\ opPc[c] = "refund_log"
    /\ usage_log' = Append(usage_log, LogEntry("refund", 0 - opArg[c].credits))
    /\ OpReturn(c, "refund", "ok",
                RefundedBalance(opSub[c].credits_remaining, opArg[c].credits,
                                opSub[c].credits_per_month))
    /\ UNCHANGED <<notCredit, sub, ops, lastDeduct>>

Refund(c) ==
    \/ \E credits \in Costs : RefundBegin(c, credits)
    \/ RefundUpdate(c)
    \/ RefundLog(c)

\* reset_monthly_credits up to its second await.
ResetBegin(c) ==
    /\ CanCall(c)
    /\ ops' = ops + 1
    /\ OpGoto(c, "reset_update", NoArg)
    /\ UNCHANGED <<notCredit, sub, usage_log, lastDeduct>>

\* reset_monthly_credits: the balance becomes the allowance of the tier.
ResetUpdate(c) ==
    /\ opPc[c] = "reset_update"
    /\ sub' = [sub EXCEPT !.credits_remaining = TierCredits(opSub[c].tier),
                          !.credits_used_this_period = 0]
    /\ lastDeduct' = NoDeduct
    /\ OpReturn(c, "reset", "ok", TierCredits(opSub[c].tier))
    /\ UNCHANGED <<notCredit, usage_log, ops>>

\* int(new_credits * days_remaining / days_in_period), at least 1
Prorated(new_credits, days_remaining, days_in_period) ==
    Max((new_credits * days_remaining) \div days_in_period, 1)

\* allocate_credits_on_upgrade(new_tier, days_remaining, days_in_period) up
\* to its second await: the credits the upgrade adds are computed.
UpgradeBegin(c, new_tier, days_remaining) ==
    /\ CanCall(c)
    /\ TierCredits(sub.tier) # Unlimited
    /\ new_tier # sub.tier /\ new_tier # FREE
    /\ ops' = ops + 1
    /\ OpGoto(c, "upgrade_update",
              [credits |-> IF IsUnlimited(new_tier) THEN Unlimited
                           ELSE Prorated(TierCredits(new_tier), days_remaining, MaxDays),
               tier |-> new_tier])
    /\ UNCHANGED <<notCredit, sub, usage_log, lastDeduct>>

\* allocate_credits_on_upgrade: the unlimited tier stores the sentinel,
\* another tier adds the prorated credits to the balance that was read.
UpgradeUpdate(c) ==
    /\ opPc[c] = "upgrade_update"
    /\ LET new_remaining ==
               IF IsUnlimited(opArg[c].tier) THEN Unlimited
               ELSE opSub[c].credits_remaining + opArg[c].credits
       IN /\ sub' = [sub EXCEPT !.tier = opArg[c].tier,
                                !.credits_per_month = TierCredits(opArg[c].tier),
                                !.credits_remaining = new_remaining]
          /\ OpReturn(c, "upgrade", "ok", new_remaining)
    /\ lastDeduct' = NoDeduct
    /\ UNCHANGED <<notCredit, usage_log, ops>>

Renewal(c) ==
    \/ ResetBegin(c)
    \/ ResetUpdate(c)
    \/ \E new_tier \in Tiers : \E days_remaining \in 1..MaxDays :
          UpgradeBegin(c, new_tier, days_remaining)
    \/ UpgradeUpdate(c)

\* One caller at a time makes the calls of CreditService, on an account of
\* any tier.
CreditNext == Deduct(1) \/ Refund(1) \/ Renewal(1)

\* An account of any tier as its subscription is created.
CreditInit ==
    /\ InitPipeline({DefaultMaxConcurrentJobs})
    /\ InitCreditOf(Tiers)
    /\ InitServices

CreditSpec == CreditInit /\ [][CreditNext]_vars

\* NumCallers callers deduct from one account at the same time.
CreditRaceNext == \E c \in Callers : Deduct(c)

CreditRaceSpec == CreditInit /\ [][CreditRaceNext]_vars

\* ------------------------------------------- queue sender, dead letters

\* what the queue service leaves alone
notQueue == <<pipelineVars, creditVars, waitVars, loopVars, billingVars>>

\* A message on a queue of the broker.
QueueMessage(message_id, generation_id, attempt) ==
    [message_id |-> message_id, generation_id |-> generation_id,
     attempt |-> attempt]

\* The endpoint calls send_generation_request for generation g.
SendBegin(g) ==
    /\ qPc = "idle"
    /\ uuid < MaxUuid
    /\ qCall' = [NoCall EXCEPT !.origin = "endpoint", !.generation_id = g,
                               !.attempt = DefaultAttempt]
    /\ qPc' = "send"
    /\ UNCHANGED <<notQueue, uuid, mainQ, deadQ>>

\* resubmit_dead_letter_message(message_id) finds the message d on the
\* dead-letter sub-queue, parses it, increments the attempt of the parsed
\* job_message and calls send_generation_request.
ResubmitBegin(d) ==
    /\ qPc = "idle"
    /\ uuid < MaxUuid
    /\ d \in deadQ
    /\ qCall' = [NoCall EXCEPT !.origin = "resubmit",
                               !.generation_id = d.generation_id,
                               !.attempt = d.attempt + 1,
                               !.dead = d.message_id,
                               !.dead_attempt = d.attempt]
    /\ qPc' = "send"
    /\ UNCHANGED <<notQueue, uuid, mainQ, deadQ>>

\* The attempt of the message send_generation_request builds: the function
\* has no attempt parameter, so GenerationJobMessage takes its default.
SentAttempt(attempt) == DefaultAttempt

\* The message_id of the message one try builds: GenerationJobMessage draws
\* a new uuid4 each time it is constructed.
SentMessageId(drawn, ids) == drawn + 1

\* What one try of the send can come to: the broker takes the message; a
\* ServiceBusError with the message not taken; a ServiceBusError although
\* the broker took the message; any other exception.
SendOutcomes == {"sent", "lost", "unacknowledged", "other"}

\* send_generation_request returns or raises.  The endpoint gets the
\* result; resubmit_dead_letter_message ignores a returned value and goes
\* on to complete the dead-lettered message, while an exception takes it
\* to its except branch, which returns False.
SendReturn(call, result) ==
    IF call.origin = "resubmit" /\ result # "raised"
    THEN /\ qPc' = "resubmit_complete"
         /\ qCall' = [call EXCEPT !.result = result]
    ELSE /\ qPc' = "idle"
         /\ qCall' = [call EXCEPT !.result = result]

\* One try of send_generation_request under tenacity: the message is built
\* and sent; True when sent, False on an exception that is no
\* ServiceBusError; a ServiceBusError is raised again, and retried while
\* fewer than stop_after_attempt tries were made.
SendTry(outcome) ==
    /\ qPc = "send"
    /\ uuid < MaxUuid
    /\ uuid' = uuid + 1
    /\ LET id == SentMessageId(uuid, qCall.ids)
           message == QueueMessage(id, qCall.generation_id,
                                   SentAttempt(qCall.attempt))
           call == [qCall EXCEPT !.tries = @ + 1, !.ids = @ \cup {id}]
       IN /\ mainQ' = IF outcome \in {"sent", "unacknowledged"}
                      THEN mainQ \cup {message} ELSE mainQ
          /\ CASE outcome = "sent" -> SendReturn(call, "true")
               [] outcome = "other" -> SendReturn(call, "false")
               [] OTHER ->
                    IF call.tries < StopAfterAttempt
                    THEN qPc' = "send" /\ qCall' = call
                    ELSE SendReturn(call, "raised")
    /\ UNCHANGED <<notQueue, deadQ>>

\* resubmit_dead_letter_message: complete_message on the dead-lettered
\* message, then return True.
ResubmitComplete ==
    /\ qPc = "resubmit_complete"
    /\ deadQ' = {d \in deadQ : d.message_id # qCall.dead}
    /\ qPc' = "idle"
    /\ UNCHANGED <<notQueue, uuid, mainQ, qCall>>

\* A message leaves the main queue for the dead-letter sub-queue (its
\* deliveries are used up, or receive_messages dead-lettered it).
DeadLetter(m) ==
    /\ m \in mainQ
    /\ mainQ' = mainQ \ {m}
    /\ deadQ' = deadQ \cup {m}
    /\ UNCHANGED <<notQueue, uuid, qPc, qCall>>

\* The endpoint and the dead-letter administration, one call at a time.
QueueNext ==
    \/ \E g \in Requests : SendBegin(g)
    \/ \E d \in deadQ : ResubmitBegin(d)
    \/ \E outcome \in SendOutcomes : SendTry(outcome)
    \/ ResubmitComplete
    \/ \E m \in mainQ : DeadLetter(m)

QueueSpec == Init /\ [][QueueNext]_vars

\* ----------------------------------------------------- wait_for_completion

\* what wait_for_completion leaves alone
notWait == <<pipelineVars, creditVars, queueVars, loopVars, billingVars>>

\* prediction.status as the provider reports it, or "error" when
\* check_prediction_status caught an exception of the status check.
PollStatuses ==
    {"starting", "processing", "succeeded", "failed", "canceled", "error"}

\* max_attempts = int(max_wait_time / poll_interval)
max_attempts(max_wait_time, poll_interval) == max_wait_time \div poll_interval

\* A loop that looks at the time only.
LoopContinues_TimeOnly(elapsed, max_wait_time, attempt, limit) ==
    elapsed < max_wait_time

\* while elapsed < max_wait_time and attempt < max_attempts
LoopContinues(elapsed, max_wait_time, attempt, limit) ==
    elapsed < max_wait_time /\ attempt < limit

RECURSIVE Pow2(_)
Pow2(n) == IF n = 0 THEN 1 ELSE 2 * Pow2(n - 1)

\* The sleep after a poll that did not end the wait:
\* min(poll_interval * (2 ** (attempt % 5)), 10) when the error of the result
\* mentions a rate limit, poll_interval otherwise.
wait_time(poll_interval, attempt, rate_limited) ==
    IF rate_limited
    THEN Min(poll_interval * Pow2(attempt % BackoffCycle), BackoffCap)
    ELSE poll_interval

\* wait_for_completion(prediction_id, max_wait_time, initial_wait,
\* poll_interval) up to its loop: start_time is taken, elapsed and attempt
\* are 0, and the initial wait is slept.
WaitBegin(max_wait, initial_wait, interval) ==
    /\ waitPc = "idle"
    /\ waitCall' = [NoWait EXCEPT !.max_wait_time = max_wait,
                                  !.poll_interval = interval,
                                  !.clock = initial_wait]
    /\ waitPc' = "while"
    /\ UNCHANGED notWait

\* The test of the loop: another attempt, or the ReplicateTimeoutError
\* after the loop.
WaitTest ==
    /\ waitPc = "while"
    /\ IF LoopContinues(waitCall.elapsed, waitCall.max_wait_time, waitCall.attempt,
                        max_attempts(waitCall.max_wait_time, waitCall.poll_interval))
       THEN /\ waitCall' = [waitCall EXCEPT !.attempt = @ + 1]
            /\ waitPc' = "check"
       ELSE /\ waitPc' = "ReplicateTimeoutError"
            /\ UNCHANGED waitCall
    /\ UNCHANGED notWait

\* check_prediction_status returns after latency seconds with a status (an
\* exception of the check gives the status "error"); succeeded returns the
\* result, failed and canceled raise ReplicateAPIError, anything else goes
\* on to the sleep.
WaitCheck(status, rate_limited, latency) ==
    /\ waitPc = "check"
    /\ waitCall' = [waitCall EXCEPT !.status = status,
                                    !.rate_limited = rate_limited,
                                    !.clock = @ + latency]
    /\ waitPc' = CASE status = "succeeded" -> "returned"
                   [] status \in {"failed", "canceled"} -> "ReplicateAPIError"
                   [] OTHER -> "sleep"
    /\ UNCHANGED notWait

\* The sleep between two polls, then elapsed = time.time() - start_time.
WaitSleep ==
    /\ waitPc = "sleep"
    /\ LET slept == waitCall.clock + wait_time(waitCall.poll_interval,
                                               waitCall.attempt,
                                               waitCall.rate_limited)
       IN waitCall' = [waitCall EXCEPT !.clock = slept, !.elapsed = slept]
    /\ waitPc' = "while"
    /\ UNCHANGED notWait

\* One call of wait_for_completion with arguments, poll results and
\* latencies of the status check drawn from the bounded sets.
WaitNext ==
    \/ \E max_wait \in 0..MaxWaitTime : \E initial_wait \in 0..MaxInitialWait :
          \E interval \in 1..MaxPollInterval :
             WaitBegin(max_wait, initial_wait, interval)
    \/ WaitTest
    \/ \E status \in PollStatuses : \E rate_limited \in BOOLEAN :
          \E latency \in 0..MaxLatency : WaitCheck(status, rate_limited, latency)
    \/ WaitSleep

\* Every await of the call returns: the sleeps are finite and the status
\* check answers or raises, so the call takes its next step.
WaitSpec == Init /\ [][WaitNext]_vars /\ WF_vars(WaitNext)

\* --------------------------------------- _worker_loop, receive_messages

\* what the worker loop leaves alone
notLoop == <<pipelineVars, creditVars, queueVars, waitVars, billingVars>>

\* BackgroundWorker.start: running is set and the worker loop entered.
Start ==
    /\ loopPc = "new"
    /\ running' = TRUE
    /\ loopPc' = "while"
    /\ UNCHANGED <<notLoop, inbox, lease>>

\* BackgroundWorker.stop on a running worker: the flag is cleared, nothing
\* else.
Stop ==
    /\ running
    /\ running' = FALSE
    /\ UNCHANGED <<notLoop, loopPc, inbox, lease>>

\* "while self.running" of _worker_loop: receive_messages is called and
\* opens a receiver, or the loop is left ("Worker stopped").
WhileRunning ==
    /\ loopPc = "while"
    /\ loopPc' = IF running THEN "next" ELSE "stopped"
    /\ UNCHANGED <<notLoop, running, inbox, lease>>

Backlog == inbox["job"] + inbox["not_json"] + inbox["missing_field"]

\* A message arrives on the queue: a new one, or one the broker offers
\* again after an abandon or a lost lock.
Arrive(body) ==
    /\ Backlog < MaxBacklog
    /\ inbox' = [inbox EXCEPT ![body] = @ + 1]
    /\ UNCHANGED <<notLoop, running, loopPc, lease>>

\* A parser that takes every body for a job message.
Parses_Anything(body) == TRUE

\* json.loads(str(message)) and GenerationJobMessage.from_dict raise
\* nothing: the body is JSON and has generation_id, user_id, prompt, model.
Parses(body) == body = "job"

\* "async for message in receiver" yields a message; its body is parsed
\* and the callback awaited, or the parse raises and the except branch
\* goes to dead_letter_message.
Lease(body) ==
    /\ loopPc = "next"
    /\ inbox[body] > 0
    /\ inbox' = [inbox EXCEPT ![body] = @ - 1]
    /\ lease' = [NoLease EXCEPT !.body = body, !.locked = TRUE]
    /\ loopPc' = IF Parses(body) THEN "callback" ELSE "dead_letter"
    /\ UNCHANGED <<notLoop, running>>

\* No message came for max_wait_time: the iteration over the receiver
\* ends and receive_messages returns to the worker loop.
ReceiverIdle ==
    /\ loopPc = "next"
    /\ Backlog = 0
    /\ loopPc' = "while"
    /\ UNCHANGED <<notLoop, running, inbox, lease>>

\* The receiver fails (ServiceBusError): receive_messages raises it again
\* and the worker loop sleeps before it tries again.
ReceiverError ==
    /\ loopPc = "next"
    /\ loopPc' = "sleep"
    /\ UNCHANGED <<notLoop, running, inbox, lease>>

\* The processor callback returns; process_generation_job catches every
\* exception, so it returns True or False.  complete_message follows
\* True, abandon_message follows False.
Callback(success) ==
    /\ loopPc = "callback"
    /\ lease' = [lease EXCEPT !.success = IF success THEN "true" ELSE "false"]
    /\ loopPc' = IF success THEN "complete" ELSE "abandon"
    /\ UNCHANGED <<notLoop, running, inbox>>

\* The lock of the message in hand runs out before it is settled.
LeaseExpire ==
    /\ loopPc \in {"callback", "complete", "abandon", "dead_letter"}
    /\ lease.locked
    /\ lease' = [lease EXCEPT !.locked = FALSE]
    /\ UNCHANGED <<notLoop, running, loopPc, inbox>>

\* What a settlement call on a message whose lock is valid can come to: the
\* broker accepts it, or the call raises an error of the service.
SettleOutcomes == {"ok", "error"}

\* receiver.complete_message or receiver.abandon_message (op): with the
\* lock lost it raises MessageLockLostError, which is logged; accepted, the
\* loop goes on to the next message; any other exception takes the except
\* Exception branch to dead_letter_message.
SettleCall(op, outcome) ==
    /\ loopPc = op
    /\ IF ~lease.locked
       THEN loopPc' = "next" /\ UNCHANGED lease
       ELSE IF outcome = "ok"
            THEN /\ lease' = [lease EXCEPT !.settled = Append(@, op)]
                 /\ loopPc' = "next"
            ELSE loopPc' = "dead_letter" /\ UNCHANGED lease
    /\ UNCHANGED <<notLoop, running, inbox>>

\* receiver.dead_letter_message(message, reason="ProcessingError") in the
\* except Exception branch: accepted, the loop goes on to the next
\* message; an exception of the call leaves receive_messages, and the
\* worker loop logs it and sleeps.
DeadLetterCall(outcome) ==
    /\ loopPc = "dead_letter"
    /\ IF lease.locked /\ outcome = "ok"
       THEN /\ lease' = [lease EXCEPT !.settled = Append(@, "dead_letter"),
                                      !.reason = "ProcessingError"]
            /\ loopPc' = "next"
       ELSE loopPc' = "sleep" /\ UNCHANGED lease
    /\ UNCHANGED <<notLoop, running, inbox>>

\* asyncio.sleep(5) of the worker loop after an error, then the loop test.
Sleep ==
    /\ loopPc = "sleep"
    /\ loopPc' = "while"
    /\ UNCHANGED <<notLoop, running, inbox, lease>>

\* The steps the worker process takes by itself.
LoopStep ==
    \/ Start
    \/ WhileRunning
    \/ \E body \in Bodies : Lease(body)
    \/ ReceiverIdle
    \/ \E success \in BOOLEAN : Callback(success)
    \/ \E op \in {"complete", "abandon"} : \E outcome \in SettleOutcomes :
          SettleCall(op, outcome)
    \/ \E outcome \in SettleOutcomes : DeadLetterCall(outcome)
    \/ Sleep

\* The worker process, the messages that arrive, the broker, and stop().
LoopNext ==
    \/ LoopStep
    \/ Stop
    \/ \E body \in Bodies : Arrive(body)
    \/ LeaseExpire
    \/ ReceiverError

\* The worker process takes its next step whenever it can: the receiver
\* yields a waiting message or ends after max_wait_time, and the callback
\* and the calls of the broker return.  Nothing is assumed of the arrival
\* of messages or of stop().
LoopSpec == Init /\ [][LoopNext]_vars /\ WF_vars(LoopStep)

\* --------------------------------------------------------- billing webhook

\* what the billing webhook leaves alone
notBilling == <<pipelineVars, creditVars, queueVars, waitVars, loopVars>>

\* event_id in _processed_events
is_event_processed(event_id) == event_id \in _processed_events

\* _processed_events.add(event_id)
mark_event_processed(event_id) == _processed_events \cup {event_id}

\* stripe_webhook for delivery d of the event with id event_id, up to the
\* end of verify_webhook_signature: a missing or invalid signature is
\* answered 400.
VerifySignature(d, event_id, valid) ==
    /\ hookPc[d] = "idle"
    /\ IF valid
       THEN /\ hookPc' = [hookPc EXCEPT ![d] = "verified"]
            /\ hookEvent' = [hookEvent EXCEPT ![d] = event_id]
       ELSE /\ hookPc' = [hookPc EXCEPT ![d] = "error_400"]
            /\ UNCHANGED hookEvent
    /\ UNCHANGED <<notBilling, _processed_events, handled>>

\* The idempotency check: an event id in the set is answered at once;
\* otherwise handle_webhook_event is called and awaited.
CheckIdempotency(d) ==
    /\ hookPc[d] = "verified"
    /\ IF is_event_processed(hookEvent[d])
       THEN /\ hookPc' = [hookPc EXCEPT ![d] = "already_processed"]
            /\ UNCHANGED handled
       ELSE /\ hookPc' = [hookPc EXCEPT ![d] = "handle"]
            /\ handled' = [handled EXCEPT ![hookEvent[d]] = @ + 1]
    /\ UNCHANGED <<notBilling, _processed_events, hookEvent>>

\* handle_webhook_event returns and the event id is marked processed, or
\* it raises and the endpoint answers 500 with nothing marked.
HandleReturns(d, raised) ==
    /\ hookPc[d] = "handle"
    /\ IF raised
       THEN /\ hookPc' = [hookPc EXCEPT ![d] = "error_500"]
            /\ UNCHANGED _processed_events
       ELSE /\ hookPc' = [hookPc EXCEPT ![d] = "processed"]
            /\ _processed_events' = mark_event_processed(hookEvent[d])
    /\ UNCHANGED <<notBilling, hookEvent, handled>>

\* MaxDeliveries requests of the billing provider, served concurrently.
BillingNext ==
    \E d \in Deliveries :
        \/ \E event_id \in Events : \E valid \in BOOLEAN :
              VerifySignature(d, event_id, valid)
        \/ CheckIdempotency(d)
        \/ \E raised \in BOOLEAN : HandleReturns(d, raised)

BillingSpec == Init /\ [][BillingNext]_vars

\* ------------------------------------------------------------- properties

\* No worker is still working on message m.
Unattended(m) == \A w \in Workers : wMsg[w] # m

\* The job of message m is over: the message has left the queue for good
\* and no worker is still working on it.
JobOver(m) == msgs[m].state \in {"completed", "dead"} /\ Unattended(m)

\* C1: when the job of a generation is over, the credits refunded for it
\* equal the credits deducted at submission if its record ended failed, and
\* are zero if it ended completed (exactly one refund for a job that failed
\* on every attempt).
C1_RefundExactlyOnce ==
    \A m \in 1..Len(msgs) :
        JobOver(m) =>
            LET g == msgs[m].gid
            IN /\ rec[g].status = FAILED =>
                    refunded[g] = rec[g].credits_used /\ refunded[g] = deducted[g]
               /\ rec[g].status = COMPLETED => refunded[g] = 0

\* C2: once a record is completed, no step changes its status or result
\* fields, deducts credits for it again or refunds it.
C2_CompletedIsFinal ==
    [][\A g \in Requests :
          rec[g].status = COMPLETED =>
              /\ rec'[g] = rec[g]
              /\ deducted'[g] = deducted[g]
              /\ refunded'[g] = refunded[g]]_vars

\* The status changes the state machine of the record allows.
AllowedTransitions ==
    {<<PENDING, PROCESSING>>, <<PROCESSING, COMPLETED>>,
     <<PROCESSING, FAILED>>, <<FAILED, PROCESSING>>}

\* Worker w is about to enter processing for generation g with a message
\* delivered for the first time that carries a later attempt than the first.
LeasedNewAttempt(w, g) ==
    /\ wPc[w] = "received"
    /\ msgs[wMsg[w]].gid = g
    /\ msgs[wMsg[w]].delivery_count = 1
    /\ msgs[wMsg[w]].attempt > DefaultAttempt

\* C3: every change of the status of an existing record is pending to
\* processing, processing to completed, processing to failed or failed to
\* processing, and failed to processing is made only by a worker whose
\* leased message is a new message carrying attempt+1.
C3_StatusTransitions ==
    [][\A g \in Requests :
          (rec[g].status # NoRecord /\ rec'[g].status # rec[g].status) =>
              /\ <<rec[g].status, rec'[g].status>> \in AllowedTransitions
              /\ (rec[g].status = FAILED =>
                     \E w \in Workers : LeasedNewAttempt(w, g))]_vars

\* C4: a message all of whose attempts failed with an error other than a
\* rate limit is in the dead-letter queue, its record failed, as soon as
\* max_retries attempts have been made and have ended.
C4_DeadLetterAtMaxRetries ==
    \A m \in 1..Len(msgs) :
        (/\ msgs[m].all_failed
         /\ Unattended(m)
         /\ msgs[m].delivery_count >= max_retries) =>
            /\ msgs[m].state = "dead"
            /\ rec[msgs[m].gid].status = FAILED

\* C5: the credit balance of the account is never negative.
C5_BalanceNonNegative == balance >= 0

\* C6: a submission that ends in an error after its record was created (the
\* enqueue failed) has been refunded exactly what was deducted from it.
C6_RefundOnEnqueueFailure ==
    \A r \in Requests :
        (reqPc[r] = "error_500" /\ rec[r].status # NoRecord) =>
            /\ deducted[r] > 0
            /\ refunded[r] = deducted[r]

\* Request r left no trace: no record, no message, nothing deducted or
\* refunded.
NoTrace(r) ==
    /\ rec[r].status = NoRecord
    /\ \A m \in 1..Len(msgs) : msgs[m].gid # r
    /\ deducted[r] = 0
    /\ refunded[r] = 0

\* C7: a submission whose required credits exceed the balance of the user
\* it arrives with is answered 402 (insufficient credits) in that very
\* step, which changes neither the balance nor the records nor the queue;
\* and a request answered 402 has no record and no message, and nothing
\* was deducted from or refunded to the balance for it.
C7_InsufficientRejected ==
    [][/\ \A r \in Requests : \A c \in Costs :
             (ReqCheck(r, c) /\ c > balance) =>
                 /\ reqPc'[r] = "rejected_402"
                 /\ balance' = balance
                 /\ rec' = rec
                 /\ msgs' = msgs
       /\ \A r \in Requests :
             reqPc'[r] = "rejected_402" => (NoTrace(r))']_vars

\* C7 witness: a request was rejected for insufficient credits after
\* another one had used the balance up.
C7_Witness ==
    \E r \in Requests :
        /\ reqPc[r] = "rejected_402"
        /\ balance < CostDev
        /\ \E q \in Requests : deducted[q] > 0

C9_RateLimitKeepsProcessing ==
    [][\A w \in Workers :
          AttemptFails(w, "rate_limit") =>
              /\ rec'[msgs[wMsg[w]].gid].status # FAILED
              /\ rec'[msgs[wMsg[w]].gid].status = rec[msgs[wMsg[w]].gid].status
              /\ refunded' = refunded]_vars

\* C10: a message is completed (removed for good) only when the record of
\* its generation is completed.
C10_CompletedMessageCompletedRecord ==
    \A m \in 1..Len(msgs) :
        msgs[m].state = "completed" => rec[msgs[m].gid].status = COMPLETED

Executing(w) == IF wPc[w] = "pipeline" THEN 1 ELSE 0

\* C12: in a worker process the number of jobs executing the per-job
\* pipeline never exceeds max_concurrent_jobs, every executing job holds one
\* permit of the pool, and while the pool is full the receive loop is
\* neither leasing nor starting another job.
C12_PoolBound ==
    \A w \in OneProcess :
        /\ Executing(w) <= max_concurrent_jobs
        /\ semaphore[w] = max_concurrent_jobs - Executing(w)
        /\ semaphore[w] = 0 => wPc[w] \notin {"idle", "received"}

\* C12 witness: the pool of a process is full while a job executes.
C12_Witness ==
    \E w \in OneProcess :
        /\ wPc[w] = "pipeline"
        /\ semaphore[w] = 0
        /\ max_concurrent_jobs >= 1

C13_RefundRestoresBalance ==
    [][\A c \in Callers :
          RefundUpdate(c) =>
              /\ sub'.credits_remaining = sub.credits_remaining + opArg[c].credits
              /\ lastDeduct.credits = opArg[c].credits =>
                    sub'.credits_remaining = lastDeduct.before]_vars

\* The credits of the successful deductions in the log.
RECURSIVE SumDeducted(_)
SumDeducted(log) ==
    IF log = <<>> THEN 0
    ELSE (IF Head(log).action = "generation" THEN Head(log).credits_used ELSE 0)
         + SumDeducted(Tail(log))

\* C14: when the concurrent deductions from a limited-tier account have all
\* returned, the balance is the initial balance less the sum of the credits
\* deducted: no update is lost.
C14_NoLostUpdate ==
    ((\A c \in Callers : opPc[c] = "idle") /\ ~IsUnlimited(sub.tier)) =>
        sub.credits_remaining = sub.credits_per_month - SumDeducted(usage_log)

\* C15: a deduction from a limited-tier account whose balance is less than
\* the amount raises InsufficientCredits at once and changes neither the
\* balance nor the used-this-period counter nor the usage log.
C15_InsufficientChangesNothing ==
    [][\A c \in Callers : \A credits \in Costs :
          (/\ DeductBegin(c, credits)
           /\ ~IsUnlimited(sub.tier)
           /\ sub.credits_remaining < credits) =>
              /\ opPc'[c] = "idle"
              /\ opRet'[c].call = "deduct"
              /\ opRet'[c].outcome = "InsufficientCredits"
              /\ sub' = sub
              /\ usage_log' = usage_log]_vars

\* C15 witness: a deduction was refused after earlier ones had used the
\* balance of the account.
C15_Witness ==
    \E c \in Callers :
        /\ opRet[c].outcome = "InsufficientCredits"
        /\ opPc[c] = "idle"
        /\ ~IsUnlimited(sub.tier)
        /\ Len(usage_log) >= 1
        /\ sub.credits_remaining < CostDev

\* C16: on an unlimited tier a deduction and a refund leave the stored
\* balance alone, report the sentinel -1 as success, and each appends an
\* entry to the usage log.
C16_UnlimitedBypassStillLogs ==
    [][\A c \in Callers :
          /\ (IsUnlimited(sub.tier) /\ \E credits \in Costs : DeductBegin(c, credits)) =>
                sub' = sub /\ opPc'[c] = "deduct_log_unlimited"
          /\ DeductLogUnlimited(c) =>
                /\ sub' = sub
                /\ opRet'[c].outcome = "ok"
                /\ opRet'[c].credits_remaining = Unlimited
                /\ Len(usage_log') = Len(usage_log) + 1
          /\ (IsUnlimited(sub.tier) /\ \E credits \in Costs : RefundBegin(c, credits)) =>
                /\ sub' = sub
                /\ opRet'[c].outcome = "ok"
                /\ opRet'[c].credits_remaining = Unlimited
                /\ Len(usage_log') = Len(usage_log) + 1]_vars

\* C19: when a resubmission has sent its message, the main queue holds a
\* new message with the generation_id of the dead-lettered one, a
\* different message_id, and the attempt of the dead-lettered one plus 1.
C19_ResubmitIncrementsAttempt ==
    [][(qPc = "send" /\ qCall.origin = "resubmit" /\ qPc' = "resubmit_complete") =>
          \E n \in mainQ' \ mainQ :
             /\ n.generation_id = qCall.generation_id
             /\ n.message_id # qCall.dead
             /\ n.attempt = qCall.dead_attempt + 1]_vars

\* C21: a record in cancelled is never changed: no step of a worker (or of
\* anything else) sets it to processing, completed or failed or touches
\* its other fields.
C21_CancelledIsFinal ==
    [][\A g \in Requests :
          rec[g].status = CANCELLED => rec'[g] = rec[g]]_vars

\* C24: the step that first takes a record into processing stamps
\* started_at, and a started_at that is set is never changed afterwards.
C24_StartedAtStampedOnce ==
    [][\A g \in Requests :
          /\ (rec[g].status = PENDING /\ rec'[g].status = PROCESSING) =>
                rec'[g].started_at # 0
          /\ rec[g].started_at # 0 =>
                rec'[g].started_at = rec[g].started_at]_vars

\* C23: every message on the queue refers to a generation whose record
\* exists and whose cost, the credits_used of the record, has been deducted
\* from the balance: the submission deducts, then creates the record, then
\* enqueues.
C23_DeductCreateEnqueue ==
    \A m \in 1..Len(msgs) :
        LET g == msgs[m].gid
        IN /\ rec[g].status # NoRecord
           /\ rec[g].credits_used \in Costs
           /\ deducted[g] = rec[g].credits_used

\* C23 witness: two submissions were enqueued, each after its deduction and
\* its record.
C23_Witness ==
    /\ Len(msgs) = 2
    /\ msgs[1].gid # msgs[2].gid
    /\ \A m \in 1..2 : deducted[msgs[m].gid] = CostSchnell
    /\ balance = InitialCredits - 2 * CostSchnell

\* The submission of request r has returned to its caller.
Returned(r) == reqPc[r] \in {"accepted", "rejected_402", "error_500"}

\* C27: once a submission has returned, a record it left in pending has a
\* message for its generation_id that is on the queue or leased by a worker.
C27_PendingHasMessage ==
    \A r \in Requests :
        (Returned(r) /\ rec[r].status = PENDING) =>
            \E m \in 1..Len(msgs) :
                /\ msgs[m].gid = r
                /\ msgs[m].state \in {"active", "leased"}

\* C25: while a job executes in a worker process that has permits left
\* (max_concurrent_jobs >= 2) and another message waits on the queue, the
\* receive loop of the process can lease that message: the second job is
\* dispatched while the first is still executing.
C25_SecondJobDispatched ==
    \A w \in OneProcess : \A m \in 1..Len(msgs) :
        (/\ wPc[w] = "pipeline"
         /\ semaphore[w] > 0
         /\ m # wMsg[w]
         /\ msgs[m].state = "active") => ENABLED Receive(w, m)

\* The call of wait_for_completion has returned or raised.
WaitOver == waitPc \in {"returned", "ReplicateAPIError", "ReplicateTimeoutError"}

\* C22: a call of wait_for_completion ends: it returns only on a poll that
\* reported succeeded and always then, raises the provider error only on a
\* poll that reported failed or canceled and always then, raises the
\* timeout otherwise, and never makes more than
\* floor(max_wait_time / poll_interval) polls.
C22_WaitTerminates ==
    /\ [](/\ waitCall.attempt <=
                max_attempts(waitCall.max_wait_time, waitCall.poll_interval)
          /\ waitPc = "returned" <=>
                (waitCall.status = "succeeded" /\ waitPc # "check")
          /\ waitPc = "ReplicateAPIError" <=>
                (waitCall.status \in {"failed", "canceled"} /\ waitPc # "check")
          /\ waitPc = "ReplicateTimeoutError" =>
                waitCall.status \notin {"succeeded", "failed", "canceled"})
    /\ (waitPc # "idle") ~> WaitOver

\* C22 witness: the wait timed out after polling as often as it may, each
\* of at least two status checks having reported an error.
C22_Witness ==
    /\ waitPc = "ReplicateTimeoutError"
    /\ waitCall.status = "error"
    /\ waitCall.attempt >= 2
    /\ waitCall.attempt =
          max_attempts(waitCall.max_wait_time, waitCall.poll_interval)

\* The receive loop is done with the job message it received last.
Handled == lease.body = "job" /\ loopPc \in {"next", "while", "sleep", "stopped"}

\* C26: a job message the loop is done with, whose lock was not lost, was
\* settled by exactly one accepted operation; that operation is complete if
\* and only if the callback returned True, and it is never dead-letter when
\* the callback returned True.
C26_SettledExactlyOnce ==
    (Handled /\ lease.locked) =>
        /\ Len(lease.settled) = 1
        /\ lease.settled = <<"complete">> <=> lease.success = "true"
        /\ lease.success = "true" => lease.settled # <<"dead_letter">>

\* C28: once stop() has cleared the running flag of a started worker, the
\* worker loop eventually exits (and leases nothing from then on).
C28_StopEventuallyExits ==
    (loopPc # "new" /\ ~running) ~> (loopPc = "stopped")

\* C29: a received message whose body does not parse goes straight to
\* dead_letter_message, the callback not run; the accepted call
\* dead-letters it with reason ProcessingError and the loop goes on to the
\* next message; such a message is never completed or abandoned.
C29_MalformedDeadLettered ==
    [][/\ \A body \in Bodies \ {"job"} :
             Lease(body) => loopPc' = "dead_letter" /\ lease'.success = "none"
       /\ (/\ lease.body \in Bodies \ {"job"}
           /\ lease.locked
           /\ DeadLetterCall("ok")) =>
              /\ lease'.settled = <<"dead_letter">>
              /\ lease'.reason = "ProcessingError"
              /\ loopPc' = "next"
       /\ lease'.body \in Bodies \ {"job"} =>
              /\ lease'.success = "none"
              /\ \A i \in 1..Len(lease'.settled) :
                    lease'.settled[i] = "dead_letter"]_vars

\* C29 witness: a message that is no JSON was dead-lettered and the loop
\* is at the receiver again, a job message waiting.
C29_Witness ==
    /\ lease.body = "not_json"
    /\ lease.settled = <<"dead_letter">>
    /\ lease.reason = "ProcessingError"
    /\ loopPc = "next"
    /\ inbox["job"] > 0

\* C30: handle_webhook_event is called at most once for an event id,
\* however often and however overlapping the event is delivered.
C30_HandledAtMostOnce == \A e \in Events : handled[e] <= 1

\* C20: all the tries of one send request carry the same message_id: a
\* request never builds more than one distinct message_id.
C20_RetriesShareMessageId == Cardinality(qCall.ids) <= 1
====
